---------------------------- MODULE Spec2Model ----------------------------
(***************************************************************************)
(* Continuous Wavelet Transform worker (fft, ifft, reverseIndex, morlet,   *)
(* mexicanHat, cwt, self.onmessage) and the message handler of the         *)
(* ContinuousWaveletTransformVisualizer component that consumes its        *)
(* replies.                                                                *)
(*                                                                         *)
(* Numbers.  A JavaScript double is modelled as a fixed-point number with  *)
(* Unit steps per 1.0, plus the IEEE special values NaN and +-Infinity.    *)
(* Sums are exact; products and quotients round to the nearest step and    *)
(* square roots round down (so a product of two tiny values underflows to  *)
(* 0, as it does for doubles at a much smaller threshold).  Math.exp and Math.cos   *)
(* are tabulated at this resolution.  The twiddle factors of the           *)
(* transform are tabulated by sixteenths of a turn, so transforms up to    *)
(* length 16 are covered and those of length 1, 2 and 4 are exact.         *)
(* Overflow to Infinity is not modelled: every magnitude of the model is   *)
(* far below Number.MAX_VALUE.  Signed zero is not modelled.               *)
(*                                                                         *)
(* Buffers are Float64Arrays: a sequence of numbers, 0-based index i is    *)
(* element i + 1; a read beyond the end yields undefined (NaN once used in *)
(* arithmetic or stored) and a write beyond the end is ignored.            *)
(*                                                                         *)
(* debugLog / addDebugInfo only append text to a display log; the log text *)
(* is not modelled, the 'debug' messages themselves are.                   *)
(***************************************************************************)
EXTENDS Integers, Sequences, FiniteSets, TLC

\* Fixed-point resolution: steps per 1.0.  Tied to the tables below.
Unit == 2 * 2 * 2

---------------------------------------------------------------------------
\* Double arithmetic

Fin(x) == [k |-> "fin", v |-> x]
NaN == [k |-> "nan", v |-> 0]
Inf(s) == [k |-> "inf", v |-> s]

IsNaN(a) == a.k = "nan"
IsFin(a) == a.k = "fin"
IsInf(a) == a.k = "inf"
IsZero(a) == a.k = "fin" /\ a.v = 0

\* sign of an integer as +1 / -1 (0 counts as +0)
SignOf(x) == IF x < 0 THEN -1 ELSE 1
Sgn(a) == SignOf(a.v)
AbsInt(x) == IF x < 0 THEN -x ELSE x

\* p / q rounded to the nearest integer, ties away from zero (q > 0)
RoundDiv(p, q) ==
  IF p >= 0 THEN (2 * p + q) \div (2 * q) ELSE -((2 * (-p) + q) \div (2 * q))

Neg(a) == IF IsNaN(a) THEN NaN ELSE [a EXCEPT !.v = -a.v]

Add(a, b) ==
  IF IsNaN(a) \/ IsNaN(b) THEN NaN
  ELSE IF IsInf(a) /\ IsInf(b) THEN (IF a.v = b.v THEN a ELSE NaN)
  ELSE IF IsInf(a) THEN a
  ELSE IF IsInf(b) THEN b
  ELSE Fin(a.v + b.v)

Sub(a, b) == Add(a, Neg(b))

Mul(a, b) ==
  IF IsNaN(a) \/ IsNaN(b) THEN NaN
  ELSE IF IsInf(a) \/ IsInf(b)
       THEN (IF IsZero(a) \/ IsZero(b) THEN NaN ELSE Inf(Sgn(a) * Sgn(b)))
  ELSE Fin(RoundDiv(a.v * b.v, Unit))

Div(a, b) ==
  IF IsNaN(a) \/ IsNaN(b) THEN NaN
  ELSE IF IsInf(a) THEN (IF IsInf(b) THEN NaN ELSE Inf(Sgn(a) * Sgn(b)))
  ELSE IF IsInf(b) THEN Fin(0)
  ELSE IF b.v = 0 THEN (IF a.v = 0 THEN NaN ELSE Inf(Sgn(a)))
  ELSE Fin(SignOf(b.v) * RoundDiv(a.v * Unit, AbsInt(b.v)))

\* floor of the integer square root, by bisection on lo..hi
RECURSIVE SqrtSearch(_, _, _)
SqrtSearch(n, lo, hi) ==
  IF lo >= hi THEN lo
  ELSE LET mid == (lo + hi + 1) \div 2
       IN IF mid * mid <= n THEN SqrtSearch(n, mid, hi)
          ELSE SqrtSearch(n, lo, mid - 1)

ISqrt(n) == SqrtSearch(n, 0, IF n < 46340 THEN n ELSE 46340)

\* Math.sqrt
Sqrt(a) ==
  IF IsNaN(a) THEN NaN
  ELSE IF IsInf(a) THEN (IF a.v > 0 THEN a ELSE NaN)
  ELSE IF a.v < 0 THEN NaN
  ELSE Fin(ISqrt(a.v * Unit))

\* Unit * e^(-a/Unit) for a = 0, 1, 2, ...; 0 beyond the table
ExpTable ==
  <<8, 7, 6, 5, 5, 4, 4, 3, 3, 3, 2, 2, 2, 2, 1, 1, 1, 1, 1, 1, 1, 1, 1>>

ExpNeg(a) == IF a < Len(ExpTable) THEN ExpTable[a + 1] ELSE 0

\* Math.exp
Exp(a) ==
  IF IsNaN(a) THEN NaN
  ELSE IF IsInf(a) THEN (IF a.v > 0 THEN a ELSE Fin(0))
  ELSE IF a.v <= 0 THEN Fin(ExpNeg(-a.v))
  ELSE Div(Fin(Unit), Fin(ExpNeg(a.v)))

\* Unit * cos(2 pi a / 50) for a = 0..49; 50 steps are one period (2 pi * Unit)
CosTable ==
  <<8, 8, 8, 7, 7, 6, 6, 5, 4, 3, 2, 1, 1, -1, -1, -2, -3, -4, -5, -6, -6, -7,
    -7, -8, -8, -8, -8, -8, -7, -7, -6, -6, -5, -4, -3, -2, -1, -1, 1, 1, 2, 3,
    4, 5, 6, 6, 7, 7, 8, 8>>

\* Math.cos
Cos(a) ==
  IF IsFin(a) THEN Fin(CosTable[(AbsInt(a.v) % Len(CosTable)) + 1]) ELSE NaN

\* a >= 0 as JavaScript evaluates it (false for NaN)
Geq0(a) == (IsFin(a) /\ a.v >= 0) \/ (IsInf(a) /\ a.v > 0)

---------------------------------------------------------------------------
\* Float64Array access

Get(a, i) == IF i >= 0 /\ i < Len(a) THEN a[i + 1] ELSE NaN
Set(a, i, x) == IF i >= 0 /\ i < Len(a) THEN [a EXCEPT ![i + 1] = x] ELSE a

\* the array holding f[1], ..., f[n], each element computed once
RECURSIVE ArrayFrom(_, _, _)
ArrayFrom(f, j, n) == IF j > n THEN <<>> ELSE <<f[j]>> \o ArrayFrom(f, j + 1, n)
Array(f, n) == ArrayFrom(f, 1, n)

\* new Float64Array(n): n zeros
Zeros(n) == Array([j \in 1..n |-> Fin(0)], n)

---------------------------------------------------------------------------
\* Integer helpers of the worker

RECURSIVE Pow2(_)
Pow2(e) == IF e <= 0 THEN 1 ELSE 2 * Pow2(e - 1)

\* Math.ceil(Math.log2(x)) for an integer x >= 1
RECURSIVE CeilLog2From(_, _)
CeilLog2From(x, c) == IF Pow2(c) >= x THEN c ELSE CeilLog2From(x, c + 1)
CeilLog2(x) == CeilLog2From(x, 0)

RECURSIVE IsPowerOfTwo(_)
IsPowerOfTwo(n) ==
  IF n < 1 THEN FALSE
  ELSE IF n = 1 THEN TRUE
  ELSE n % 2 = 0 /\ IsPowerOfTwo(n \div 2)

\* number of iterations of "for (i = 0; i < Math.log2(n); i++)"
LoopBits(n) == IF n <= 1 THEN 0 ELSE CeilLog2(n)

RECURSIVE ReverseLoop(_, _, _)
ReverseLoop(index, reversed, left) ==
  IF left = 0 THEN reversed
  ELSE ReverseLoop(index \div 2, 2 * reversed + (index % 2), left - 1)

\* variant: index is not shifted, every pass reads its lowest bit
RECURSIVE ReverseLoopNoShift(_, _, _)
ReverseLoopNoShift(index, reversed, left) ==
  IF left = 0 THEN reversed
  ELSE ReverseLoopNoShift(index, 2 * reversed + (index % 2), left - 1)

reverseIndexNoShift(index, n) == ReverseLoopNoShift(index, 0, LoopBits(n))

\* variant: one pass too many (i <= Math.log2(n))
reverseIndexExtraBit(index, n) == ReverseLoop(index, 0, LoopBits(n) + 1)

reverseIndex(index, n) == ReverseLoop(index, 0, LoopBits(n))

---------------------------------------------------------------------------
\* fft / ifft

\* Unit * cos(2 pi j / 16), j = 0..15
TwiddleTable == <<8, 7, 6, 3, 0, -3, -6, -7, -8, -7, -6, -3, 0, 3, 6, 7>>

\* Math.cos(2*Math.PI*k/n) and Math.sin(2*Math.PI*k/n) with k = m * (n/size),
\* that is the angle of m/size of a turn
TwiddleCos(m, size) == Fin(TwiddleTable[(((m * 16) \div size) % 16) + 1])
TwiddleSin(m, size) == Fin(TwiddleTable[((((m * 16) \div size) + 12) % 16) + 1])

\* variant: the swap made for every index, without the test i < r
PermuteAtAlways(b, i) ==
  LET n == Len(b.re)
      r == reverseIndex(i, n)
  IN [re |-> Set(Set(b.re, i, Get(b.re, r)), r, Get(b.re, i)),
      im |-> Set(Set(b.im, i, Get(b.im, r)), r, Get(b.im, i))]

\* the body of the permutation loop for index i
PermuteAt(b, i) ==
  LET n == Len(b.re)
      r == reverseIndex(i, n)
  IN IF i < r
     THEN [re |-> Set(Set(b.re, i, Get(b.re, r)), r, Get(b.re, i)),
           im |-> Set(Set(b.im, i, Get(b.im, r)), r, Get(b.im, i))]
     ELSE b

RECURSIVE PermuteFrom(_, _)
PermuteFrom(b, i) ==
  IF i >= Len(b.re) THEN b ELSE PermuteFrom(PermuteAt(b, i), i + 1)

\* lines 17-22: the bit-reversal permutation loop
Permute(b) == PermuteFrom(b, 0)

\* variant: the cosine added to re[j + halfsize] in tpre, not multiplied
ButterflyAdding(b, j, m, size) ==
  LET h == size \div 2
      c == TwiddleCos(m, size)
      s == TwiddleSin(m, size)
      tpre == Add(Add(Get(b.re, j + h), c), Mul(Get(b.im, j + h), s))
      tpim == Add(Mul(Neg(Get(b.re, j + h)), s), Mul(Get(b.im, j + h), c))
      re1 == Set(b.re, j + h, Sub(Get(b.re, j), tpre))
      im1 == Set(b.im, j + h, Sub(Get(b.im, j), tpim))
  IN [re |-> Set(re1, j, Add(Get(re1, j), tpre)),
      im |-> Set(im1, j, Add(Get(im1, j), tpim))]

\* lines 29-34: one butterfly on the pair (j, j + halfsize)
Butterfly(b, j, m, size) ==
  LET h == size \div 2
      c == TwiddleCos(m, size)
      s == TwiddleSin(m, size)
      tpre == Add(Mul(Get(b.re, j + h), c), Mul(Get(b.im, j + h), s))
      tpim == Add(Mul(Neg(Get(b.re, j + h)), s), Mul(Get(b.im, j + h), c))
      re1 == Set(b.re, j + h, Sub(Get(b.re, j), tpre))
      im1 == Set(b.im, j + h, Sub(Get(b.im, j), tpim))
  IN [re |-> Set(re1, j, Add(Get(re1, j), tpre)),
      im |-> Set(im1, j, Add(Get(im1, j), tpim))]

\* line 28: the loop over j = i .. i + halfsize - 1
RECURSIVE BlockFrom(_, _, _, _)
BlockFrom(b, i, m, size) ==
  IF m >= size \div 2 THEN b
  ELSE BlockFrom(Butterfly(b, i + m, m, size), i, m + 1, size)

\* line 27: the loop over the blocks i = 0, size, 2*size, ... < n
RECURSIVE PassFrom(_, _, _)
PassFrom(b, i, size) ==
  IF i >= Len(b.re) THEN b
  ELSE PassFrom(BlockFrom(b, i, 0, size), i + size, size)

\* line 24: the loop over size = 2, 4, ... <= n
RECURSIVE PassesFrom(_, _)
PassesFrom(b, size) ==
  IF size > Len(b.re) THEN b
  ELSE PassesFrom(PassFrom(b, 0, size), 2 * size)

Butterflies(b) == PassesFrom(b, 2)

\* lines 24-28: the butterflies the three loops make on buffers of length n,
\* in order, each with its index j, its halfsize and its position m in the
\* block (k = m * tablestep)
RECURSIVE BlockOrderFrom(_, _, _)
BlockOrderFrom(i, m, size) ==
  IF m >= size \div 2 THEN <<>>
  ELSE <<[j |-> i + m, halfsize |-> size \div 2, m |-> m, size |-> size]>>
         \o BlockOrderFrom(i, m + 1, size)

RECURSIVE PassOrderFrom(_, _, _)
PassOrderFrom(n, i, size) ==
  IF i >= n THEN <<>>
  ELSE BlockOrderFrom(i, 0, size) \o PassOrderFrom(n, i + size, size)

\* variant: the loop over size runs while size <= 2 * n
RECURSIVE PassesOrderFromTooFar(_, _)
PassesOrderFromTooFar(n, size) ==
  IF size > 2 * n THEN <<>>
  ELSE <<PassOrderFrom(n, 0, size)>> \o PassesOrderFromTooFar(n, 2 * size)

\* one sequence of butterflies for each pass of the loop over size
RECURSIVE PassesOrderFrom(_, _)
PassesOrderFrom(n, size) ==
  IF size > n THEN <<>>
  ELSE <<PassOrderFrom(n, 0, size)>> \o PassesOrderFrom(n, 2 * size)

\* the butterflies of the order, made on b one after the other
RECURSIVE ButterfliesIn(_, _, _)
ButterfliesIn(b, order, c) ==
  IF c > Len(order) THEN b
  ELSE ButterfliesIn(Butterfly(b, order[c].j, order[c].m, order[c].size),
                     order, c + 1)

RECURSIVE PassesIn(_, _, _)
PassesIn(b, passes, c) ==
  IF c > Len(passes) THEN b
  ELSE PassesIn(ButterfliesIn(b, passes[c], 1), passes, c + 1)

fft(b) == Butterflies(Permute(b))

\* lines 52-55
DivideByN(b) ==
  LET n == Len(b.re)
  IN [re |-> Array([j \in 1..n |-> Div(b.re[j], Fin(n * Unit))], n),
      im |-> Array([j \in 1..n |-> Div(b.im[j], Fin(n * Unit))], n)]

\* line 56
NegateIm(b) ==
  [b EXCEPT !.im = Array([j \in 1..Len(b.im) |-> Neg(b.im[j])], Len(b.im))]

ifft(b) == NegateIm(DivideByN(fft(b)))

---------------------------------------------------------------------------
\* Wavelets

\* default parameter centralFrequency = 6
centralFrequency == 6

\* Math.sqrt(2 / (Math.sqrt(3) * Math.PI ** 0.25)) = 0.9313, in steps of 1/Unit
MexicanHatNorm == 7

morlet(t, scale) ==
  LET norm == Sqrt(Div(Fin(Unit), scale))
      exp1 == Exp(Div(Neg(Mul(t, t)), Mul(Mul(Fin(2 * Unit), scale), scale)))
  IN Mul(Mul(norm, exp1), Cos(Div(Mul(Fin(centralFrequency * Unit), t), scale)))

mexicanHat(t, scale) ==
  LET norm == Fin(MexicanHatNorm)
      x == Div(t, scale)
  IN Div(Mul(Mul(norm, Sub(Fin(Unit), Mul(x, x))),
             Exp(Div(Mul(Neg(x), x), Fin(2 * Unit)))),
         Sqrt(scale))

\* line 132: waveletType === 'morlet' ? morlet : mexicanHat
waveletFunction(waveletType, t, scale) ==
  IF waveletType = "morlet" THEN morlet(t, scale) ELSE mexicanHat(t, scale)

---------------------------------------------------------------------------
\* cwt, as operators on the values of its local variables

\* variant: the doubling of N forgotten
PaddedLengthOfN(n) == IF n = 0 THEN 0 ELSE Pow2(CeilLog2(n))

\* line 77: Math.pow(2, Math.ceil(Math.log2(N * 2))); Math.log2(0) is
\* -Infinity and Math.pow(2, -Infinity) is 0
PaddedLength(n) == IF n = 0 THEN 0 ELSE Pow2(CeilLog2(n * 2))

\* lines 80-85: the signal copied into a zeroed buffer of the padded length
PadSignal(signal, padded) ==
  Array([j \in 1..padded |-> IF j <= Len(signal) THEN signal[j] ELSE Fin(0)],
        padded)

\* variant: the kernel not shifted at all
ShiftedTUnshifted(t, n) == Fin(t * Unit)

\* variant: the kernel centred in the padded buffer
ShiftedTPadded(t, n) == Fin(((2 * t - PaddedLength(n)) * Unit) \div 2)

\* line 99: t - N / 2
ShiftedT(t, n) == Fin(((2 * t - n) * Unit) \div 2)

\* lines 95-101
Kernel(waveletType, scale, n, padded) ==
  [re |-> Array([j \in 1..padded |->
                   waveletFunction(waveletType, ShiftedT(j - 1, n), scale)],
                padded),
   im |-> Zeros(padded)]

\* variant: the plain complex product S * K
ProductPlain(s, k) ==
  [re |-> Array([j \in 1..Len(s.re) |->
                   Sub(Mul(s.re[j], k.re[j]), Mul(s.im[j], k.im[j]))], Len(s.re)),
   im |-> Array([j \in 1..Len(s.re) |->
                   Add(Mul(s.im[j], k.re[j]), Mul(s.re[j], k.im[j]))], Len(s.re))]

\* lines 106-112
Product(s, k) ==
  [re |-> Array([j \in 1..Len(s.re) |->
                   Add(Mul(s.re[j], k.re[j]), Mul(s.im[j], k.im[j]))], Len(s.re)),
   im |-> Array([j \in 1..Len(s.re) |->
                   Sub(Mul(s.im[j], k.re[j]), Mul(s.re[j], k.im[j]))], Len(s.re))]

\* line 118, the value stored for time index t
Magnitude(c, t, scale) ==
  Div(Sqrt(Add(Mul(Get(c.re, t), Get(c.re, t)), Mul(Get(c.im, t), Get(c.im, t)))),
      Sqrt(scale))

\* variant: the scales taken from the end of the list
ScaleAtReversed(scales, i) == scales[Len(scales) - i]

\* line 94: const scale = scales[i]
ScaleAt(scales, i) == scales[i + 1]

\* variant: rows laid out with the padded length as the stride
WIndexPadded(i, n, t) == i * PaddedLength(n) + t

\* line 118, the index written for scale index i and time index t
WIndex(i, n, t) == i * n + t

\* lines 117-119: the loop storing the row of scale index i
RECURSIVE StoreRowFrom(_, _, _, _, _, _)
StoreRowFrom(w, c, i, n, scale, t) ==
  IF t >= n THEN w
  ELSE StoreRowFrom(Set(w, WIndex(i, n, t), Magnitude(c, t, scale)),
                    c, i, n, scale, t + 1)

StoreRow(w, c, i, n, scale) == StoreRowFrom(w, c, i, n, scale, 0)

---------------------------------------------------------------------------
\* Bounds of the model

\* longest signal a caller posts
MaxN == 3
\* longest scale list a caller posts
MaxM == 2
\* longest buffer handed to fft / ifft directly
MaxLen == 4
\* buffer elements handed to fft / ifft directly: real parts
\* -MaxFftSample..MaxFftSample, imaginary parts 0..MaxFftSample (times 1.0)
MaxFftSample == 1

\* sequences over S of length 0..n
SeqsUpTo(S, n) == UNION {[1..len -> S] : len \in 0..n}

\* signal samples: 0 and 1.0
Samples == {Fin(0), Fin(Unit)}
Signals == SeqsUpTo(Samples, MaxN)

\* scales: negative, the smallest positive value, 1.0 and 2.0 (a scale of zero
\* is among the scale lists of SpecSeq)
ScaleValues == {Fin(-Unit), Fin(1), Fin(Unit), Fin(2 * Unit)}
ScaleLists == SeqsUpTo(ScaleValues, MaxM)

WaveletTypes == {"morlet", "mexicanHat"}

FftRe == {Fin(x * Unit) : x \in (-MaxFftSample)..MaxFftSample}
FftIm == {Fin(x * Unit) : x \in 0..MaxFftSample}

---------------------------------------------------------------------------
\* State

VARIABLES
  inbox,         \* requests posted to the worker, not yet received
  outbox,        \* messages posted by the worker, not yet handled by the host
  wpc,           \* where the worker is: "idle", "called", "scales"
  req,           \* e.data of the request being handled
  N,             \* cwt: signal.length
  paddedLength,  \* cwt: paddedLength
  signalRe,      \* cwt: signalRe
  signalIm,      \* cwt: signalIm
  W,             \* cwt: W
  i,             \* cwt: index of the next scale
  calls,         \* cwt: the fft / ifft calls made so far, with buffer lengths
  bufs,          \* cwt: the buffers of the last loop iteration, see Scale
  cwtResult,     \* component state cwtResult
  isCalculating, \* component state isCalculating
  posted,        \* number of requests posted so far
  received,      \* number of requests the worker has received so far
  handled,       \* the requests the worker has answered, with the answers
  fx,            \* direct transform: the buffers before the calls
  fb,            \* direct transform: the buffers
  fpc,           \* direct transform: the calls made, "input" before any
  revN,          \* direct reverseIndex: the length n
  revIndex,      \* direct reverseIndex: the index given to the first call
  reversed,      \* direct reverseIndex: the value returned last
  revCalls,      \* direct reverseIndex: calls made, each on the last result
  linA,          \* transforms of a combination: the scalar a
  linB,          \* transforms of a combination: the scalar b
  linX,          \* transforms of a combination: the buffers of x
  linY,          \* transforms of a combination: the buffers of y
  linZ,          \* transforms of a combination: the buffers of a*x + b*y
  linCalls,      \* transforms of a combination: fft calls made (0 or 3)
  permI,         \* permutation loop of fft on fb: the loop index i
  permSwaps,     \* permutation loop of fft on fb: the swaps made, as <<i, r>>
  state,         \* component: the rendered state of the hooks of lines 147-155
  updates,       \* component: the state updates queued for the next render
  phase,         \* component: "initial", "mounted", "remounting", "unmounted"
  workerRef,     \* component: workerRef.current, 0 for null, else the worker
  alive,         \* the workers created and not terminated
  created,       \* number of workers created so far
  events,        \* number of changes the user has made to the controls
  sent           \* the requests the component has posted, in order

workerVars == <<wpc, req, N, paddedLength, signalRe, signalIm, W, i, calls, bufs>>
hostVars == <<cwtResult, isCalculating>>
fftVars == <<fx, fb, fpc>>
histVars == <<posted, received, handled>>
revVars == <<revN, revIndex, reversed, revCalls>>
linVars == <<linA, linB, linX, linY, linZ, linCalls>>
permVars == <<permI, permSwaps>>
compVars == <<state, updates, phase, workerRef, alive, created, events, sent>>
vars == <<inbox, outbox, workerVars, hostVars, histVars, fftVars, revVars, linVars, permVars, compVars>>

Debug == [type |-> "debug"]
DebugMsgs(n) == [j \in 1..n |-> Debug]

NoRequest == [signal |-> <<>>, scales |-> <<>>, waveletType |-> "none"]
NoBuffers == [re |-> <<>>, im |-> <<>>]

\* no loop iteration of cwt has run
NoScaleBuffers ==
  [kernel |-> NoBuffers, wavelet |-> NoBuffers, product |-> NoBuffers,
   convolution |-> NoBuffers]

\* the worker script has run (lines 13 and 143 posted their debug messages)
\* and the component has been constructed (lines 148-149)
SystemInit ==
  /\ inbox = <<>>
  /\ outbox = DebugMsgs(2)
  /\ wpc = "idle"
  /\ req = NoRequest
  /\ N = 0
  /\ paddedLength = 0
  /\ signalRe = <<>>
  /\ signalIm = <<>>
  /\ W = <<>>
  /\ i = 0
  /\ calls = <<>>
  /\ bufs = NoScaleBuffers
  /\ cwtResult = <<>>
  /\ isCalculating = FALSE
  /\ posted = 0
  /\ received = 0
  /\ handled = <<>>

\* reverseIndex is not called directly
NoReverse ==
  /\ revN = 1
  /\ revIndex = 0
  /\ reversed = 0
  /\ revCalls = 0

\* the permutation loop is not run on its own
NoPermutation ==
  /\ permI = 0
  /\ permSwaps = <<>>

\* lines 147-155: the state of the hooks at the first render
InitialState ==
  [signal |-> <<>>, waveletType |-> "morlet", signalType |-> "sine",
   frequency |-> Fin(Unit), amplitude |-> Fin(Unit), noiseLevel |-> Fin(0),
   scales |-> <<>>]

NoUpdates == [f \in {} |-> 0]

\* the component has not been rendered: no worker (line 157), nothing posted
NoComponent ==
  /\ state = InitialState
  /\ updates = NoUpdates
  /\ phase = "initial"
  /\ workerRef = 0
  /\ alive = {}
  /\ created = 0
  /\ events = 0
  /\ sent = <<>>

\* no combination is transformed
NoCombination ==
  /\ linA = 0
  /\ linB = 0
  /\ linX = NoBuffers
  /\ linY = NoBuffers
  /\ linZ = NoBuffers
  /\ linCalls = 0

Init ==
  /\ SystemInit
  /\ fx = NoBuffers
  /\ fb = NoBuffers
  /\ fpc = "input"
  /\ NoReverse
  /\ NoCombination
  /\ NoPermutation
  /\ NoComponent

---------------------------------------------------------------------------
\* The worker

\* a caller posts a message {signal, scales, waveletType} to the worker
PostFrom(signals, scaleLists, waveletTypes, limit) ==
  /\ posted < limit
  /\ \E signal \in signals, scales \in scaleLists, waveletType \in waveletTypes :
       inbox' = Append(inbox, [signal |-> signal, scales |-> scales,
                               waveletType |-> waveletType])
  /\ posted' = posted + 1
  /\ UNCHANGED <<outbox, workerVars, hostVars, received, handled, fftVars, revVars, linVars, permVars, compVars>>

\* the one request of an invocation, drawn from all the inputs within the bounds
Post == PostFrom(Signals, ScaleLists, WaveletTypes, 1)

\* variant: the worker takes the request posted last
ReceiveNewestFirst ==
  /\ wpc = "idle"
  /\ inbox # <<>>
  /\ req' = inbox[Len(inbox)]
  /\ inbox' = SubSeq(inbox, 1, Len(inbox) - 1)
  /\ received' = received + 1
  /\ outbox' = outbox \o DebugMsgs(2)
  /\ wpc' = "called"
  /\ UNCHANGED <<N, paddedLength, signalRe, signalIm, W, i, calls, bufs>>
  /\ UNCHANGED <<hostVars, posted, handled, fftVars, revVars, linVars, permVars, compVars>>

\* self.onmessage, lines 126-133, up to the call of cwt
Receive ==
  /\ wpc = "idle"
  /\ inbox # <<>>
  /\ req' = Head(inbox)
  /\ inbox' = Tail(inbox)
  /\ received' = received + 1
  /\ outbox' = outbox \o DebugMsgs(2)
  /\ wpc' = "called"
  /\ UNCHANGED <<N, paddedLength, signalRe, signalIm, W, i, calls, bufs>>
  /\ UNCHANGED <<hostVars, posted, handled, fftVars, revVars, linVars, permVars, compVars>>

\* variant: the signal buffers are kept between invocations and not cleared,
\* so the padding holds what the previous invocation left there
PrepareReusingBuffers ==
  /\ wpc = "called"
  /\ LET n == Len(req.signal)
         padded == PaddedLength(n)
         b == [re |-> Array([j \in 1..padded |->
                               IF j <= n THEN req.signal[j]
                               ELSE IF j <= Len(signalRe) THEN signalRe[j]
                               ELSE Fin(0)], padded),
               im |-> Zeros(padded)]
         s == fft(b)
     IN /\ N' = n
        /\ paddedLength' = padded
        /\ signalRe' = s.re
        /\ signalIm' = s.im
        /\ W' = Zeros(Len(req.scales) * n)
        /\ calls' = <<[fn |-> "fft", len |-> Len(b.re)]>>
  /\ i' = 0
  /\ bufs' = NoScaleBuffers
  /\ outbox' = outbox \o DebugMsgs(5)
  /\ wpc' = "scales"
  /\ UNCHANGED <<inbox, req, hostVars, histVars, fftVars, revVars, linVars, permVars, compVars>>

\* variant: the first samples of the transformed buffer are written back to
\* the caller's signal, as a transform made on the signal array itself would
PrepareInPlace ==
  /\ wpc = "called"
  /\ LET n == Len(req.signal)
         padded == PaddedLength(n)
         b == [re |-> PadSignal(req.signal, padded), im |-> Zeros(padded)]
         s == fft(b)
     IN /\ N' = n
        /\ paddedLength' = padded
        /\ signalRe' = s.re
        /\ signalIm' = s.im
        /\ req' = [req EXCEPT !.signal = SubSeq(s.re, 1, n)]
        /\ W' = Zeros(Len(req.scales) * n)
        /\ calls' = <<[fn |-> "fft", len |-> Len(b.re)]>>
  /\ i' = 0
  /\ bufs' = NoScaleBuffers
  /\ outbox' = outbox \o DebugMsgs(5)
  /\ wpc' = "scales"
  /\ UNCHANGED <<inbox, hostVars, histVars, fftVars, revVars, linVars, permVars, compVars>>

\* cwt, lines 72-90: signal preparation
Prepare ==
  /\ wpc = "called"
  /\ LET n == Len(req.signal)
         padded == PaddedLength(n)
         b == [re |-> PadSignal(req.signal, padded), im |-> Zeros(padded)]
         s == fft(b)
     IN /\ N' = n
        /\ paddedLength' = padded
        /\ signalRe' = s.re
        /\ signalIm' = s.im
        /\ W' = Zeros(Len(req.scales) * n)
        /\ calls' = <<[fn |-> "fft", len |-> Len(b.re)]>>
  /\ i' = 0
  /\ bufs' = NoScaleBuffers
  /\ outbox' = outbox \o DebugMsgs(5)
  /\ wpc' = "scales"
  /\ UNCHANGED <<inbox, req, hostVars, histVars, fftVars, revVars, linVars, permVars, compVars>>

\* variant: the signal buffers are transformed again in every iteration
ScaleTransformingSignal ==
  /\ wpc = "scales"
  /\ i < Len(req.scales)
  /\ LET scale == ScaleAt(req.scales, i)
         s == fft([re |-> signalRe, im |-> signalIm])
         k == Kernel(req.waveletType, scale, N, paddedLength)
         w == fft(k)
         p == Product(s, w)
         c == ifft(p)
     IN /\ signalRe' = s.re
        /\ signalIm' = s.im
        /\ W' = StoreRow(W, c, i, N, scale)
        /\ calls' = calls \o <<[fn |-> "fft", len |-> Len(s.re)],
                               [fn |-> "fft", len |-> Len(k.re)],
                               [fn |-> "ifft", len |-> Len(p.re)]>>
        /\ bufs' = [kernel |-> k, wavelet |-> w, product |-> p,
                    convolution |-> c]
  /\ i' = i + 1
  /\ outbox' = outbox \o DebugMsgs(3)
  /\ UNCHANGED <<inbox, wpc, req, N, paddedLength>>
  /\ UNCHANGED <<hostVars, histVars, fftVars, revVars, linVars, permVars, compVars>>

\* variant: waveletIm is allocated once and not cleared between iterations,
\* so it still holds what fft left there for the previous scale
ScaleReusingWaveletIm ==
  /\ wpc = "scales"
  /\ i < Len(req.scales)
  /\ LET scale == ScaleAt(req.scales, i)
         fresh == Kernel(req.waveletType, scale, N, paddedLength)
         k == [re |-> fresh.re,
               im |-> IF i = 0 THEN fresh.im ELSE bufs.wavelet.im]
         w == fft(k)
         p == Product([re |-> signalRe, im |-> signalIm], w)
         c == ifft(p)
     IN /\ W' = StoreRow(W, c, i, N, scale)
        /\ calls' = calls \o <<[fn |-> "fft", len |-> Len(k.re)],
                               [fn |-> "ifft", len |-> Len(p.re)]>>
        /\ bufs' = [kernel |-> k, wavelet |-> w, product |-> p,
                    convolution |-> c]
  /\ i' = i + 1
  /\ outbox' = outbox \o DebugMsgs(3)
  /\ UNCHANGED <<inbox, wpc, req, N, paddedLength, signalRe, signalIm>>
  /\ UNCHANGED <<hostVars, histVars, fftVars, revVars, linVars, permVars, compVars>>

\* cwt, lines 92-120: one iteration of the loop over the scales.  bufs keeps
\* waveletRe / waveletIm as lines 95-101 leave them (kernel) and as fft leaves
\* them (wavelet), and convolutionRe / convolutionIm as lines 106-112 leave
\* them (product) and as ifft leaves them (convolution)
Scale ==
  /\ wpc = "scales"
  /\ i < Len(req.scales)
  /\ LET scale == ScaleAt(req.scales, i)
         k == Kernel(req.waveletType, scale, N, paddedLength)
         w == fft(k)
         p == Product([re |-> signalRe, im |-> signalIm], w)
         c == ifft(p)
     IN /\ W' = StoreRow(W, c, i, N, scale)
        /\ calls' = calls \o <<[fn |-> "fft", len |-> Len(k.re)],
                               [fn |-> "ifft", len |-> Len(p.re)]>>
        /\ bufs' = [kernel |-> k, wavelet |-> w, product |-> p,
                    convolution |-> c]
  /\ i' = i + 1
  /\ outbox' = outbox \o DebugMsgs(3)
  /\ UNCHANGED <<inbox, wpc, req, N, paddedLength, signalRe, signalIm>>
  /\ UNCHANGED <<hostVars, histVars, fftVars, revVars, linVars, permVars, compVars>>

\* cwt, lines 122-123, and self.onmessage, lines 135-136: the result is posted
Return ==
  /\ wpc = "scales"
  /\ i >= Len(req.scales)
  /\ outbox' = outbox \o DebugMsgs(2) \o <<[type |-> "result", data |-> W]>>
  /\ handled' = Append(handled, [request |-> req, type |-> "result",
                                 message |-> "", data |-> W])
  /\ wpc' = "idle"
  /\ UNCHANGED <<inbox, req, N, paddedLength, signalRe, signalIm, W, i, calls, bufs>>
  /\ UNCHANGED <<hostVars, posted, received, fftVars, revVars, linVars, permVars, compVars>>

\* variant: the error is posted but the invocation is not abandoned
ThrowAndContinue ==
  /\ \/ wpc = "called"
     \/ wpc = "scales" /\ i < Len(req.scales)
  /\ outbox' = outbox \o DebugMsgs(1)
                 \o <<[type |-> "error", message |-> "RangeError"]>>
  /\ handled' = Append(handled, [request |-> req, type |-> "error",
                                 message |-> "RangeError", data |-> <<>>])
  /\ UNCHANGED <<inbox, workerVars, hostVars, posted, received, fftVars, revVars, linVars, permVars, compVars>>

\* self.onmessage, lines 137-140: a "new Float64Array(...)" of cwt (lines 80-90
\* or 95-107) throws a RangeError because the allocation fails
Throw ==
  /\ \/ wpc = "called"
     \/ wpc = "scales" /\ i < Len(req.scales)
  /\ outbox' = outbox \o DebugMsgs(1)
                 \o <<[type |-> "error", message |-> "RangeError"]>>
  /\ handled' = Append(handled, [request |-> req, type |-> "error",
                                 message |-> "RangeError", data |-> <<>>])
  /\ wpc' = "idle"
  /\ UNCHANGED <<inbox, req, N, paddedLength, signalRe, signalIm, W, i, calls, bufs>>
  /\ UNCHANGED <<hostVars, posted, received, fftVars, revVars, linVars, permVars, compVars>>

---------------------------------------------------------------------------
\* The component's handler of the worker's messages, lines 172-197

\* lines 180-181 (100 and 1000 in the source, scaled down)
numScales == 2
signalLength == 2

Min(a, b) == IF a < b THEN a ELSE b

\* result.subarray(begin, end): both ends clamped to the length
SubArray(a, begin, end) == SubSeq(a, Min(begin, Len(a)) + 1, Min(end, Len(a)))

\* lines 179-185
FormatResult(result) ==
  [r \in 1..numScales |->
     SubArray(result, (r - 1) * signalLength, r * signalLength)]

\* lines 174-190
OnResult ==
  /\ outbox # <<>>
  /\ Head(outbox).type = "result"
  /\ cwtResult' = FormatResult(Head(outbox).data)
  /\ isCalculating' = FALSE
  /\ outbox' = Tail(outbox)
  /\ UNCHANGED <<inbox, workerVars, histVars, fftVars, revVars, linVars, permVars, compVars>>

\* lines 191-192
OnDebug ==
  /\ outbox # <<>>
  /\ Head(outbox).type = "debug"
  /\ outbox' = Tail(outbox)
  /\ UNCHANGED <<inbox, workerVars, hostVars, histVars, fftVars, revVars, linVars, permVars, compVars>>

\* lines 193-196
OnError ==
  /\ outbox # <<>>
  /\ Head(outbox).type = "error"
  /\ isCalculating' = FALSE
  /\ outbox' = Tail(outbox)
  /\ UNCHANGED <<inbox, workerVars, cwtResult, histVars, fftVars, revVars, linVars, permVars, compVars>>

---------------------------------------------------------------------------
\* The worker alone, handling one request drawn from all the inputs within the
\* bounds; its messages stay in outbox

Next ==
  \/ Post
  \/ Receive
  \/ Prepare
  \/ Scale
  \/ Return
  \/ Throw

Spec == Init /\ [][Next]_vars

---------------------------------------------------------------------------
\* The worker and the component's handler, with several requests, one after
\* the other or queued, drawn from a few inputs

\* requests a caller posts in one behaviour
MaxSeqRequests == 2

SeqSignals == {<<>>, <<Fin(Unit), Fin(0)>>}
SeqScaleLists == {<<>>, <<Fin(Unit)>>, <<Fin(2 * Unit), Fin(0)>>}

PostSeq == PostFrom(SeqSignals, SeqScaleLists, {"morlet"}, MaxSeqRequests)

NextSeq ==
  \/ PostSeq
  \/ Receive
  \/ Prepare
  \/ Scale
  \/ Return
  \/ Throw
  \/ OnResult
  \/ OnDebug
  \/ OnError

SpecSeq == Init /\ [][NextSeq]_vars

---------------------------------------------------------------------------
\* The worker alone, handling several requests drawn from a few inputs

\* requests a caller posts in one behaviour
MaxCalls == 3

CallSignals == {<<Fin(Unit)>>, <<Fin(Unit), Fin(0)>>}
CallScaleLists == {<<Fin(2 * Unit), Fin(Unit)>>}

PostCalls == PostFrom(CallSignals, CallScaleLists, WaveletTypes, MaxCalls)

NextCalls ==
  \/ PostCalls
  \/ Receive
  \/ Prepare
  \/ Scale
  \/ Return
  \/ Throw

SpecCalls == Init /\ [][NextCalls]_vars

---------------------------------------------------------------------------
\* fft and ifft called directly on a pair of buffers

InitFFT ==
  /\ SystemInit
  /\ \E n \in 0..MaxLen :
       \E re \in [1..n -> FftRe], im \in [1..n -> FftIm] :
         fx = [re |-> re, im |-> im]
  /\ fb = fx
  /\ fpc = "input"
  /\ NoReverse
  /\ NoCombination
  /\ NoPermutation
  /\ NoComponent

CallFft ==
  /\ fpc = "input"
  /\ fb' = fft(fb)
  /\ fpc' = "fft"
  /\ UNCHANGED <<fx, inbox, outbox, workerVars, hostVars, histVars, revVars, linVars, permVars, compVars>>

CallIfft ==
  /\ fpc \in {"input", "fft"}
  /\ fb' = ifft(fb)
  /\ fpc' = IF fpc = "input" THEN "ifft" ELSE "fft,ifft"
  /\ UNCHANGED <<fx, inbox, outbox, workerVars, hostVars, histVars, revVars, linVars, permVars, compVars>>

NextFFT ==
  \/ CallFft
  \/ CallIfft

SpecFFT == InitFFT /\ [][NextFFT]_vars

---------------------------------------------------------------------------
\* reverseIndex called directly, with a power-of-two length and an index below
\* it, and called again on its own result

\* lengths are 2^0 .. 2^MaxBits
MaxBits == 10

InitRev ==
  /\ SystemInit
  /\ fx = NoBuffers
  /\ fb = NoBuffers
  /\ fpc = "input"
  /\ \E e \in 0..MaxBits : revN = Pow2(e)
  /\ revIndex \in 0..(revN - 1)
  /\ reversed = revIndex
  /\ revCalls = 0
  /\ NoCombination
  /\ NoPermutation
  /\ NoComponent

CallReverseIndex ==
  /\ revCalls < 2
  /\ reversed' = reverseIndex(reversed, revN)
  /\ revCalls' = revCalls + 1
  /\ UNCHANGED <<revN, revIndex>>
  /\ UNCHANGED <<inbox, outbox, workerVars, hostVars, histVars, fftVars, linVars, permVars, compVars>>

NextRev == CallReverseIndex

SpecRev == InitRev /\ [][NextRev]_vars

---------------------------------------------------------------------------
\* fft called on x, on y and on the combination a*x + b*y, for integer
\* scalars a, b and buffers x, y of the same length

\* longest buffers x and y
MaxLinLen == 4

\* elements of x: 0, 1 and the imaginary unit; elements of y: 0 and 1 + i
LinX == {[re |-> Fin(0), im |-> Fin(0)], [re |-> Fin(Unit), im |-> Fin(0)],
         [re |-> Fin(0), im |-> Fin(Unit)]}
LinY == {[re |-> Fin(0), im |-> Fin(0)], [re |-> Fin(Unit), im |-> Fin(Unit)]}
LinA == {-3, 2}
LinB == {-1, 2}

\* the pair of buffers holding the complex numbers of the sequence z
Buffers(z) ==
  [re |-> Array([j \in 1..Len(z) |-> z[j].re], Len(z)),
   im |-> Array([j \in 1..Len(z) |-> z[j].im], Len(z))]

\* a*x + b*y, element by element
Combination(a, x, b, y) ==
  LET len == Len(x.re)
      fa == Fin(a * Unit)
      fb1 == Fin(b * Unit)
  IN [re |-> Array([j \in 1..len |->
                      Add(Mul(fa, x.re[j]), Mul(fb1, y.re[j]))], len),
      im |-> Array([j \in 1..len |->
                      Add(Mul(fa, x.im[j]), Mul(fb1, y.im[j]))], len)]

InitLin ==
  /\ SystemInit
  /\ fx = NoBuffers
  /\ fb = NoBuffers
  /\ fpc = "input"
  /\ NoReverse
  /\ linA \in LinA
  /\ linB \in LinB
  /\ \E len \in 0..MaxLinLen :
       \E x \in [1..len -> LinX], y \in [1..len -> LinY] :
         /\ linX = Buffers(x)
         /\ linY = Buffers(y)
  /\ linZ = Combination(linA, linX, linB, linY)
  /\ linCalls = 0
  /\ NoPermutation
  /\ NoComponent

CallFftOnEach ==
  /\ linCalls = 0
  /\ linX' = fft(linX)
  /\ linY' = fft(linY)
  /\ linZ' = fft(linZ)
  /\ linCalls' = 3
  /\ UNCHANGED <<linA, linB>>
  /\ UNCHANGED <<inbox, outbox, workerVars, hostVars, histVars, fftVars, revVars, permVars, compVars>>

NextLin == CallFftOnEach

SpecLin == InitLin /\ [][NextLin]_vars

---------------------------------------------------------------------------
\* ifft called directly on a pair of buffers, one step of its body at a time

\* variant: the input is conjugated before the forward transform
IfftForwardConjugated ==
  /\ fpc = "input"
  /\ fb' = fft(NegateIm(fb))
  /\ fpc' = "ifft: fft"
  /\ UNCHANGED <<fx, inbox, outbox, workerVars, hostVars, histVars, revVars, linVars, permVars, compVars>>

\* line 50
IfftForward ==
  /\ fpc = "input"
  /\ fb' = fft(fb)
  /\ fpc' = "ifft: fft"
  /\ UNCHANGED <<fx, inbox, outbox, workerVars, hostVars, histVars, revVars, linVars, permVars, compVars>>

\* lines 51-55
IfftDivide ==
  /\ fpc = "ifft: fft"
  /\ fb' = DivideByN(fb)
  /\ fpc' = "ifft: divide"
  /\ UNCHANGED <<fx, inbox, outbox, workerVars, hostVars, histVars, revVars, linVars, permVars, compVars>>

\* line 56
IfftNegate ==
  /\ fpc = "ifft: divide"
  /\ fb' = NegateIm(fb)
  /\ fpc' = "ifft: negate"
  /\ UNCHANGED <<fx, inbox, outbox, workerVars, hostVars, histVars, revVars, linVars, permVars, compVars>>

NextIfft ==
  \/ IfftForward
  \/ IfftDivide
  \/ IfftNegate

\* longest buffers given to ifft
MaxIfftLen == 4

\* their elements: real parts -1.0, 0 and 1.0, imaginary parts 0 and 1.0
IfftRe == {Fin(-Unit), Fin(0), Fin(Unit)}
IfftIm == {Fin(0), Fin(Unit)}

InitIfft ==
  /\ SystemInit
  /\ \E n \in 0..MaxIfftLen :
       \E re \in [1..n -> IfftRe], im \in [1..n -> IfftIm] :
         fx = [re |-> re, im |-> im]
  /\ fb = fx
  /\ fpc = "input"
  /\ NoReverse
  /\ NoCombination
  /\ NoPermutation
  /\ NoComponent

SpecIfft == InitIfft /\ [][NextIfft]_vars

---------------------------------------------------------------------------
\* The permutation loop of fft, lines 17-22, one iteration at a time, on
\* buffers whose real parts are all different

\* longest buffers
MaxPermLen == 16

InitPerm ==
  /\ SystemInit
  /\ NoReverse
  /\ NoCombination
  /\ \E len \in 0..MaxPermLen :
       \E im \in {Zeros(len), Array([j \in 1..len |-> Fin(-j)], len)} :
         fx = [re |-> Array([j \in 1..len |-> Fin(j * Unit)], len), im |-> im]
  /\ fb = fx
  /\ fpc = "input"
  /\ permI = 0
  /\ permSwaps = <<>>
  /\ NoComponent

PermuteStep ==
  /\ permI < Len(fb.re)
  /\ fb' = PermuteAt(fb, permI)
  /\ permSwaps' = IF permI < reverseIndex(permI, Len(fb.re))
                  THEN Append(permSwaps, <<permI, reverseIndex(permI, Len(fb.re))>>)
                  ELSE permSwaps
  /\ permI' = permI + 1
  /\ UNCHANGED <<fx, fpc, inbox, outbox, workerVars, hostVars, histVars,
                 revVars, linVars, compVars>>

NextPerm == PermuteStep

SpecPerm == InitPerm /\ [][NextPerm]_vars

---------------------------------------------------------------------------
\* The worker alone, handling a request and then the same request with its
\* scale list in another order

\* longest scale list of the two requests
MaxOrderM == 2

OrderScaleLists == SeqsUpTo(ScaleValues, MaxOrderM)

PostFirst == PostFrom(CallSignals, OrderScaleLists, WaveletTypes, 1)

\* the permutations of 1..len, as functions
OrdersOf(len) ==
  {p \in [1..len -> 1..len] : \A a, b \in 1..len : p[a] = p[b] => a = b}

\* the request posted first: waiting in inbox, or the one in the worker
FirstRequest == IF inbox # <<>> THEN inbox[1] ELSE req

PostPermuted ==
  /\ posted = 1
  /\ \E p \in OrdersOf(Len(FirstRequest.scales)) :
       inbox' = Append(inbox,
                       [FirstRequest EXCEPT
                          !.scales = [j \in 1..Len(FirstRequest.scales) |->
                                        FirstRequest.scales[p[j]]]])
  /\ posted' = 2
  /\ UNCHANGED <<outbox, workerVars, hostVars, received, handled, fftVars,
                 revVars, linVars, permVars, compVars>>

NextOrder ==
  \/ PostFirst
  \/ PostPermuted
  \/ Receive
  \/ Prepare
  \/ Scale
  \/ Return
  \/ Throw

SpecOrder == Init /\ [][NextOrder]_vars

---------------------------------------------------------------------------
\* The worker alone with one request, its handler running to completion once
\* it has started: a step of cwt that can be made is made

\* the steps of Prepare and of Scale, told by what they do to the position
\* of the handler: whether one can be made is decided without computing a
\* transform
PrepareStep == wpc = "called" /\ wpc' = "scales"

ScaleStep == wpc = "scales" /\ i < Len(req.scales) /\ i' = i + 1

Fairness ==
  /\ WF_wpc(PrepareStep)
  /\ WF_i(ScaleStep)
  /\ WF_vars(Return)

SpecLive == Spec /\ Fairness

---------------------------------------------------------------------------
\* The component ContinuousWaveletTransformVisualizer, lines 146-268, with
\* its worker

otherVars == <<fftVars, revVars, linVars, permVars>>

\* some of the values the controls of lines 318-351 can give: the two
\* wavelet types, the four signal types, frequencies 0.5 and 1, amplitudes 1
\* and 2, noise levels 0 and 1
SignalTypes == {"sine", "square", "sawtooth", "chirp"}
Frequencies == {Fin(Unit \div 2), Fin(Unit)}
Amplitudes == {Fin(Unit), Fin(2 * Unit)}
NoiseLevels == {Fin(0), Fin(Unit)}

\* values of Math.random(), in [0, 1)
Randoms == {Fin(0), Fin(4)}

\* changes the user makes to the controls in one behaviour
MaxEvents == 1

\* Math.sin(2 * Math.PI * x), x a non-negative number of turns
Sin(x) == IF IsFin(x) THEN TwiddleSin(x.v, Unit) ELSE NaN

Sign(a) ==
  IF IsNaN(a) THEN NaN
  ELSE IF a.v > 0 THEN Fin(Unit)
  ELSE IF a.v < 0 THEN Fin(-Unit)
  ELSE Fin(0)

Floor(a) == IF IsFin(a) THEN Fin((a.v \div Unit) * Unit) ELSE a

\* line 217 (1000 in the source, scaled down as signalLength is)
SampleCount == 2
\* line 218 (999 in the source)
LastSample == 1
\* line 241 (100 in the source, scaled down as numScales is)
ScaleCount == 2
\* line 241: 0.1, to the nearest representable number
Tenth == Fin(1)

\* lines 220-236
Value(signalType, frequency, amplitude, t) ==
  CASE signalType = "sine" -> Mul(amplitude, Sin(Mul(frequency, t)))
    [] signalType = "square" -> Mul(amplitude, Sign(Sin(Mul(frequency, t))))
    [] signalType = "sawtooth" ->
         Mul(amplitude,
             Mul(Fin(2 * Unit),
                 Sub(Mul(frequency, t),
                     Floor(Add(Fin(Unit \div 2), Mul(frequency, t))))))
    [] signalType = "chirp" -> Mul(amplitude, Sin(Mul(Mul(frequency, t), t)))
    [] OTHER -> Fin(0)

\* variant: the loop of line 217 makes one sample more
newSignalOneMore(s, randoms) ==
  Array([j \in 1..(SampleCount + 1) |->
           LET t == Div(Fin((j - 1) * Unit), Fin(LastSample * Unit))
           IN [t |-> t,
               value |-> Add(Value(s.signalType, s.frequency, s.amplitude, t),
                             Mul(Sub(randoms[1], Fin(Unit \div 2)),
                                 s.noiseLevel))]], SampleCount + 1)

\* lines 216-238: the samples {t, value}, randoms[j] being the value of
\* Math.random() for sample j
newSignal(s, randoms) ==
  Array([j \in 1..SampleCount |->
           LET t == Div(Fin((j - 1) * Unit), Fin(LastSample * Unit))
           IN [t |-> t,
               value |-> Add(Value(s.signalType, s.frequency, s.amplitude, t),
                             Mul(Sub(randoms[j], Fin(Unit \div 2)),
                                 s.noiseLevel))]], SampleCount)

\* line 241
newScales ==
  Array([j \in 1..ScaleCount |->
           Sub(Fin(10 * Unit), Mul(Fin((j - 1) * Unit), Tenth))], ScaleCount)

\* lines 214-245: setSignal and setScales queue the new signal and scales
generateSignalAndScales(s) ==
  \E randoms \in [1..SampleCount -> Randoms] :
    updates' = [f \in {"signal", "scales"} |->
                  IF f = "signal" THEN newSignal(s, randoms) ELSE newScales]

\* line 258: signal.map(s => s.value)
ValuesOf(signal) == Array([j \in 1..Len(signal) |-> signal[j].value], Len(signal))

\* a new worker: its script has run and has posted the debug messages of
\* lines 13 and 143
NewWorker ==
  /\ wpc' = "idle"
  /\ req' = NoRequest
  /\ N' = 0
  /\ paddedLength' = 0
  /\ signalRe' = <<>>
  /\ signalIm' = <<>>
  /\ W' = <<>>
  /\ i' = 0
  /\ calls' = <<>>
  /\ bufs' = NoScaleBuffers
  /\ outbox' = DebugMsgs(2)

\* lines 165-203: the worker effect
WorkerEffect ==
  IF workerRef = 0
  THEN /\ created' = created + 1
       /\ workerRef' = created + 1
       /\ alive' = alive \cup {created + 1}
       /\ NewWorker
  ELSE UNCHANGED <<created, workerRef, alive, workerVars, outbox>>

\* variant: the cleanup forgets the worker and does not terminate it
CleanupWithoutTerminate ==
  IF workerRef # 0
  THEN /\ workerRef' = 0
       /\ UNCHANGED <<alive, wpc, inbox, outbox>>
  ELSE UNCHANGED <<alive, workerRef, wpc, inbox, outbox>>

\* lines 205-211: the cleanup of the worker effect; terminate() stops the
\* worker and discards the messages to it and from it not yet delivered
Cleanup ==
  IF workerRef # 0
  THEN /\ alive' = alive \ {workerRef}
       /\ workerRef' = 0
       /\ wpc' = "none"
       /\ inbox' = <<>>
       /\ outbox' = <<>>
  ELSE UNCHANGED <<alive, workerRef, wpc, inbox, outbox>>

\* lines 251-268: the request effect, run in a render with state s, the
\* worker's queue holding the requests of queue
RequestEffect(s, queue) ==
  IF Len(s.signal) = 0 \/ Len(s.scales) = 0 \/ workerRef' = 0
  THEN /\ inbox' = queue
       /\ UNCHANGED <<isCalculating, posted, sent>>
  ELSE LET request == [signal |-> ValuesOf(s.signal), scales |-> s.scales,
                       waveletType |-> s.waveletType]
       IN /\ isCalculating' = TRUE
          /\ inbox' = Append(queue, request)
          /\ posted' = posted + 1
          /\ sent' = Append(sent, request)

\* the three effects in the order of the source, after the first render
Effects ==
  /\ WorkerEffect
  /\ generateSignalAndScales(state)
  /\ RequestEffect(state, <<>>)

\* the component is rendered for the first time and its effects run
Mount ==
  /\ phase = "initial"
  /\ phase' = "mounted"
  /\ Effects
  /\ UNCHANGED <<state, cwtResult, received, handled, events, otherVars>>

\* React's strict mode, right after the effects of Mount: the cleanups run
StrictUnmount ==
  /\ phase = "mounted"
  /\ created = 1
  /\ events = 0
  /\ Len(state.signal) = 0
  /\ phase' = "remounting"
  /\ Cleanup
  /\ UNCHANGED <<req, N, paddedLength, signalRe, signalIm, W, i, calls, bufs>>
  /\ UNCHANGED <<state, updates, created, events, sent, hostVars, histVars, otherVars>>

\* React's strict mode: the effects run again
StrictMount ==
  /\ phase = "remounting"
  /\ phase' = "mounted"
  /\ Effects
  /\ UNCHANGED <<state, cwtResult, received, handled, events, otherVars>>

\* the component is removed: the cleanup runs, queued updates are dropped
Unmount ==
  /\ phase = "mounted"
  /\ phase' = "unmounted"
  /\ Cleanup
  /\ updates' = NoUpdates
  /\ UNCHANGED <<req, N, paddedLength, signalRe, signalIm, W, i, calls, bufs>>
  /\ UNCHANGED <<state, created, events, sent, hostVars, histVars, otherVars>>

\* the value a hook will have at the next render
Current(field) ==
  IF field \in DOMAIN updates THEN updates[field] ELSE state[field]

\* a control calls the setter of a hook with another value
SetState(field, values) ==
  /\ phase = "mounted"
  /\ events < MaxEvents
  /\ \E v \in values :
       /\ v # Current(field)
       /\ updates' = [f \in DOMAIN updates \cup {field} |->
                        IF f = field THEN v ELSE updates[f]]
  /\ events' = events + 1
  /\ UNCHANGED <<inbox, outbox, workerVars, hostVars, histVars, otherVars>>
  /\ UNCHANGED <<state, phase, workerRef, alive, created, sent>>

setWaveletType == SetState("waveletType", WaveletTypes)
setSignalType == SetState("signalType", SignalTypes)
setFrequency == SetState("frequency", Frequencies)
setAmplitude == SetState("amplitude", Amplitudes)
setNoiseLevel == SetState("noiseLevel", NoiseLevels)

\* the state with the queued updates made
Updated ==
  [f \in DOMAIN state |-> IF f \in DOMAIN updates THEN updates[f] ELSE state[f]]

\* the component is rendered again with the queued updates and the effects
\* whose dependencies changed run: that of lines 247-249, then that of
\* lines 251-268 (a new array is a changed dependency whatever it holds)
Render ==
  /\ phase = "mounted"
  /\ DOMAIN updates # {}
  /\ state' = Updated
  /\ IF \E f \in {"signalType", "frequency", "amplitude", "noiseLevel"} :
          Updated[f] # state[f]
     THEN generateSignalAndScales(Updated)
     ELSE updates' = NoUpdates
  /\ UNCHANGED workerRef
  /\ IF \/ "signal" \in DOMAIN updates
        \/ "scales" \in DOMAIN updates
        \/ Updated.waveletType # state.waveletType
     THEN RequestEffect(Updated, inbox)
     ELSE UNCHANGED <<inbox, isCalculating, posted, sent>>
  /\ UNCHANGED <<outbox, workerVars, cwtResult, received, handled, otherVars>>
  /\ UNCHANGED <<phase, alive, created, events>>

\* nothing has been rendered and no worker exists
InitHost ==
  /\ inbox = <<>>
  /\ outbox = <<>>
  /\ wpc = "none"
  /\ req = NoRequest
  /\ N = 0
  /\ paddedLength = 0
  /\ signalRe = <<>>
  /\ signalIm = <<>>
  /\ W = <<>>
  /\ i = 0
  /\ calls = <<>>
  /\ bufs = NoScaleBuffers
  /\ cwtResult = <<>>
  /\ isCalculating = FALSE
  /\ posted = 0
  /\ received = 0
  /\ handled = <<>>
  /\ fx = NoBuffers
  /\ fb = NoBuffers
  /\ fpc = "input"
  /\ NoReverse
  /\ NoCombination
  /\ NoPermutation
  /\ NoComponent

NextHost ==
  \/ Mount
  \/ StrictUnmount
  \/ StrictMount
  \/ Unmount
  \/ setWaveletType
  \/ setSignalType
  \/ setFrequency
  \/ setAmplitude
  \/ setNoiseLevel
  \/ Render
  \/ Receive
  \/ Prepare
  \/ Scale
  \/ Return
  \/ Throw
  \/ OnResult
  \/ OnDebug
  \/ OnError

SpecHost == InitHost /\ [][NextHost]_vars

---------------------------------------------------------------------------
\* Properties

\* the messages of q that end an invocation ('result' or 'error')
TerminalsIn(q) == Cardinality({j \in 1..Len(q) : q[j].type # "debug"})

\* the entry of handled for the 'result' or 'error' message outbox[j]: the
\* messages of outbox are the last ones posted
AnswerOf(j) ==
  handled[Len(handled) - TerminalsIn(SubSeq(outbox, j, Len(outbox))) + 1]

\* outbox[j] is a 'result' message
IsResult(j) == j \in 1..Len(outbox) /\ outbox[j].type = "result"

\* the magnitudes of scale index r (0-based) for a request, computed for that
\* scale alone
ExpectedRow(request, r) ==
  LET n == Len(request.signal)
      padded == PaddedLength(n)
      scale == request.scales[r + 1]
      s == fft([re |-> PadSignal(request.signal, padded), im |-> Zeros(padded)])
      c == ifft(Product(s, fft(Kernel(request.waveletType, scale, n, padded))))
  IN Array([t \in 1..n |-> Magnitude(c, t - 1, scale)], n)

HasNonPositiveScale(scales) ==
  \E j \in 1..Len(scales) : ~(IsFin(scales[j]) /\ scales[j].v > 0) /\ ~IsNaN(scales[j])

\* the invocation was ended by a failed allocation
AllocationFailed(a) == a.type = "error" /\ a.message = "RangeError"

\* C1: for a signal of length N >= 1 and M >= 1 scales, the matrix returned
\* by cwt has exactly M*N entries (not M*paddedLength) and the magnitude of
\* scale index r at time index t is at position r*N + t.
C1_Shape ==
  \A j \in 1..Len(outbox) :
    IsResult(j) =>
      LET request == AnswerOf(j).request
          data == outbox[j].data
          n == Len(request.signal)
          m == Len(request.scales)
      IN (n >= 1 /\ m >= 1) =>
           /\ Len(data) = m * n
           /\ Len(data) # m * PaddedLength(n)
           /\ \A r \in 0..(m - 1) :
                LET row == ExpectedRow(request, r)
                IN \A t \in 0..(n - 1) : data[r * n + t + 1] = row[t + 1]

\* a 2 x 3 matrix whose two rows differ has been posted
C1_Witness ==
  \E j \in 1..Len(outbox) :
    /\ IsResult(j)
    /\ Len(AnswerOf(j).request.signal) = 3
    /\ Len(AnswerOf(j).request.scales) = 2
    /\ Len(outbox[j].data) = 6
    /\ \E t \in 1..3 : /\ outbox[j].data[t] # outbox[j].data[3 + t]
                       /\ IsFin(outbox[j].data[t])
                       /\ IsFin(outbox[j].data[3 + t])

\* C2: the scales are processed in increasing index order, one per step, and
\* the step for index i writes only row i of W, the row computed from
\* scales[i]; the result is posted once all rows are written.
C2_Step ==
  /\ (wpc = "scales" /\ wpc' = "scales" /\ (i' # i \/ W' # W)) =>
       /\ i < Len(req.scales)
       /\ i' = i + 1
       /\ \A j \in 1..Len(W) : (j <= i * N \/ j > (i + 1) * N) => W'[j] = W[j]
       /\ SubSeq(W', i * N + 1, (i + 1) * N) = ExpectedRow(req, i)
  /\ (Len(handled') > Len(handled) /\ handled'[Len(handled')].type = "result") =>
       /\ i = Len(req.scales)
       /\ handled'[Len(handled')].data = W

C2_RowOrder == [][C2_Step]_vars

\* both rows of a two-scale request with different scales have been written
C2_Witness ==
  /\ wpc = "scales"
  /\ i = 2
  /\ N >= 2
  /\ req.scales[1] # req.scales[2]
  /\ SubSeq(W, 1, N) # SubSeq(W, N + 1, 2 * N)
  /\ \A j \in 1..Len(W) : IsFin(W[j])

RECURSIVE InverseSum(_, _, _, _)
InverseSum(x, m, k, part) ==
  IF k >= Len(x.re) THEN Fin(0)
  ELSE LET n == Len(x.re)
           c == TwiddleCos((k * m) % n, n)
           sn == TwiddleSin((k * m) % n, n)
           term == IF part = "re"
                   THEN Sub(Mul(x.re[k + 1], c), Mul(x.im[k + 1], sn))
                   ELSE Add(Mul(x.re[k + 1], sn), Mul(x.im[k + 1], c))
       IN Add(term, InverseSum(x, m, k + 1, part))

InverseDFT(x) ==
  LET n == Len(x.re)
  IN [re |-> Array([j \in 1..n |->
                      Div(InverseSum(x, j - 1, 0, "re"), Fin(n * Unit))], n),
      im |-> Array([j \in 1..n |->
                      Div(InverseSum(x, j - 1, 0, "im"), Fin(n * Unit))], n)]

IsReal(x) == \A j \in 1..Len(x.im) : x.im[j] = Fin(0)

\* C4: fft followed by ifft on the same buffers returns a real sequence of
\* power-of-two length unchanged.
C4_RoundTrip ==
  (fpc = "fft,ifft" /\ IsPowerOfTwo(Len(fx.re)) /\ IsReal(fx)) => fb = fx

\* C5: on buffers of power-of-two length ifft computes the standard inverse
\* discrete Fourier transform of its input.
C5_StandardInverse ==
  (fpc = "ifft" /\ IsPowerOfTwo(Len(fx.re))) => fb = InverseDFT(fx)

\* C6: a request whose scale list holds a value <= 0 ends with
\* InvalidScaleError and no 'result' message (stated for a signal that is not
\* empty, and for an invocation that no failed allocation has ended).
C6_InvalidScale ==
  \A k \in 1..Len(handled) :
    (/\ HasNonPositiveScale(handled[k].request.scales)
     /\ handled[k].request.signal # <<>>
     /\ ~AllocationFailed(handled[k]))
      => (handled[k].type = "error" /\ handled[k].message = "InvalidScaleError")

\* C7: a request with an empty signal or an empty scale list ends with
\* EmptyInputError and no 'result' message (stated for an invocation that no
\* failed allocation has ended).
C7_EmptyInput ==
  \A k \in 1..Len(handled) :
    ((handled[k].request.signal = <<>> \/ handled[k].request.scales = <<>>)
       /\ ~AllocationFailed(handled[k]))
      => (handled[k].type = "error" /\ handled[k].message = "EmptyInputError")

\* C8: fft and ifft on buffers whose length is no power of two fail with
\* InvalidLengthError and leave the buffers as they were (stated for buffers
\* that are not empty).
C8_InvalidLength ==
  (fpc # "input" /\ Len(fx.re) > 0 /\ ~IsPowerOfTwo(Len(fx.re))) =>
    (fpc = "InvalidLengthError" /\ fb = fx)

\* C9: the worker answers every request it receives with exactly one
\* 'result' or 'error' message; a 'result' is posted only after every row is
\* written and carries all M*N entries, an 'error' carries no matrix; the
\* component leaves cwtResult as it was when it handles an 'error'.
C9_State ==
  /\ received = Len(handled) + (IF wpc = "idle" THEN 0 ELSE 1)
  /\ TerminalsIn(outbox) <= Len(handled)
  /\ \A j \in 1..Len(outbox) :
       /\ outbox[j].type = "error" => DOMAIN outbox[j] = {"type", "message"}
       /\ outbox[j].type = "result" =>
            Len(outbox[j].data) =
              Len(AnswerOf(j).request.scales) * Len(AnswerOf(j).request.signal)

C9_Step ==
  /\ TerminalsIn(outbox') > TerminalsIn(outbox) =>
       /\ TerminalsIn(outbox') = TerminalsIn(outbox) + 1
       /\ wpc # "idle"
       /\ wpc' = "idle"
       /\ received' = received
       /\ outbox'[Len(outbox')].type = "result" =>
            /\ i = Len(req.scales)
            /\ outbox'[Len(outbox')].data = W
  /\ (outbox # <<>> /\ Head(outbox).type = "error" /\ outbox' = Tail(outbox)) =>
       cwtResult' = cwtResult

C9_Atomic == []C9_State /\ [][C9_Step]_vars

\* a second request failed after one row was written, its 'error' has been
\* handled, and the component still holds the first request's matrix
C9_Witness ==
  /\ Len(handled) = 2
  /\ handled[1].type = "result"
  /\ handled[1].data # <<>>
  /\ handled[2].type = "error"
  /\ Len(handled[2].request.scales) = 2
  /\ i = 1
  /\ outbox = <<>>
  /\ cwtResult = FormatResult(handled[1].data)

AllPositive(scales) == \A j \in 1..Len(scales) : IsFin(scales[j]) /\ scales[j].v > 0
AllFinite(signal) == \A j \in 1..Len(signal) : IsFin(signal[j])

\* C10: for a finite signal and strictly positive scales every entry of the
\* returned matrix is >= 0 (not negative, not NaN).
C10_NonNegative ==
  \A k \in 1..Len(handled) :
    (/\ handled[k].type = "result"
     /\ AllPositive(handled[k].request.scales)
     /\ AllFinite(handled[k].request.signal))
      => \A j \in 1..Len(handled[k].data) : Geq0(handled[k].data[j])

\* C11: whatever invocations came before, two invocations given the same
\* signal, scales and wavelet return the same matrix, and an invocation starts
\* from buffers, a matrix and a scale index built from its own request alone.
C11_State ==
  \A j \in 1..Len(handled) : \A k \in 1..Len(handled) :
    (/\ handled[j].request = handled[k].request
     /\ handled[j].type = "result"
     /\ handled[k].type = "result")
      => handled[j].data = handled[k].data

C11_Step ==
  (wpc = "called" /\ wpc' = "scales") =>
    LET padded == PaddedLength(Len(req.signal))
        s == fft([re |-> PadSignal(req.signal, padded), im |-> Zeros(padded)])
    IN /\ req' = req
       /\ signalRe' = s.re
       /\ signalIm' = s.im
       /\ W' = Zeros(Len(req.scales) * Len(req.signal))
       /\ i' = 0
       /\ Len(calls') = 1

C11_Deterministic == []C11_State /\ [][C11_Step]_vars

\* after an invocation with other inputs, the same request was answered
\* twice with a matrix of finite entries that are not all zero
C11_Witness ==
  /\ Len(handled) = 3
  /\ handled[1].type = "result"
  /\ handled[1].request # handled[2].request
  /\ handled[1].data # <<>>
  /\ handled[2].request = handled[3].request
  /\ handled[2].type = "result"
  /\ handled[3].type = "result"
  /\ handled[3].data # <<>>
  /\ \A j \in 1..Len(handled[3].data) : IsFin(handled[3].data[j])
  /\ \E j \in 1..Len(handled[3].data) : ~IsZero(handled[3].data[j])

\* the scale and the buffers of the loop iteration made last
LastScale == req.scales[i]
ScaleDone == wpc = "scales" /\ i >= 1

\* C12 as stated: the kernel sample at padded index t is the wavelet at
\* shifted time t - paddedLength/2.
C12_ShiftPadded ==
  ScaleDone =>
    \A t \in 0..(paddedLength - 1) :
      bufs.kernel.re[t + 1] =
        waveletFunction(req.waveletType,
                        Sub(Fin(t * Unit),
                            Div(Fin(paddedLength * Unit), Fin(2 * Unit))),
                        LastScale)

\* C12, amended: the kernel sample at padded index t is the wavelet at
\* shifted time t - N/2, N the length of the signal.
C12_ShiftN ==
  ScaleDone =>
    /\ Len(bufs.kernel.re) = paddedLength
    /\ \A t \in 0..(paddedLength - 1) :
         bufs.kernel.re[t + 1] =
           waveletFunction(req.waveletType,
                           Sub(Fin(t * Unit), Div(Fin(N * Unit), Fin(2 * Unit))),
                           LastScale)

\* a kernel of 8 samples for a signal of 3 (shifted times -1.5 .. 5.5) whose
\* samples are finite and not all equal
C12_Witness ==
  /\ ScaleDone
  /\ N = 3
  /\ Len(bufs.kernel.re) = 8
  /\ \A t \in 1..8 : IsFin(bufs.kernel.re[t])
  /\ \E t \in 1..8 : bufs.kernel.re[t] # bufs.kernel.re[1]

\* C13: for a signal of N >= 1 samples the kernel of every scale fills a
\* buffer of exactly paddedLength samples (real part, the imaginary part is
\* zero) and is centred on padded index N/2: for even N the sample at index
\* N/2 is the wavelet at time zero, and for every N the samples at indices t
\* and N - t are equal.
C13_PeakAtHalfN ==
  (ScaleDone /\ N >= 1) =>
    /\ Len(bufs.kernel.re) = paddedLength
    /\ bufs.kernel.im = Zeros(paddedLength)
    /\ N % 2 = 0 =>
         bufs.kernel.re[(N \div 2) + 1] =
           waveletFunction(req.waveletType, Fin(0), LastScale)
    /\ \A t \in 0..N : bufs.kernel.re[t + 1] = bufs.kernel.re[N - t + 1]

\* a kernel for a signal of 2 samples whose sample at index 1 is larger than
\* every other sample
C13_Witness ==
  /\ ScaleDone
  /\ N = 2
  /\ Len(bufs.kernel.re) = 4
  /\ \A t \in {0, 2, 3} :
       /\ IsFin(bufs.kernel.re[t + 1])
       /\ IsFin(bufs.kernel.re[2])
       /\ bufs.kernel.re[t + 1].v < bufs.kernel.re[2].v

\* C14: at every index j of the padded buffers the product of a scale is
\* S * conj(K), S the signal spectrum and K the kernel spectrum: real part
\* Sre*Kre + Sim*Kim, imaginary part Sim*Kre - Sre*Kim.
C14_CorrelationProduct ==
  ScaleDone =>
    /\ Len(bufs.product.re) = paddedLength
    /\ Len(bufs.product.im) = paddedLength
    /\ \A j \in 1..paddedLength :
         /\ bufs.product.re[j] =
              Add(Mul(signalRe[j], bufs.wavelet.re[j]),
                  Mul(signalIm[j], bufs.wavelet.im[j]))
         /\ bufs.product.im[j] =
              Sub(Mul(signalIm[j], bufs.wavelet.re[j]),
                  Mul(signalRe[j], bufs.wavelet.im[j]))

\* a product whose real part differs at some index from that of the plain
\* product S * K, Sre*Kre - Sim*Kim
C14_Witness ==
  /\ ScaleDone
  /\ \E j \in 1..paddedLength :
       /\ IsFin(bufs.product.re[j])
       /\ IsFin(bufs.product.im[j])
       /\ bufs.product.re[j] #
            Sub(Mul(signalRe[j], bufs.wavelet.re[j]),
                Mul(signalIm[j], bufs.wavelet.im[j]))

\* the number of calls of fn among the calls of the invocation
CallsOf(fn) == Cardinality({c \in 1..Len(calls) : calls[c].fn = fn})

\* the invocation of req has returned its matrix
Returned ==
  /\ wpc = "idle"
  /\ handled # <<>>
  /\ handled[Len(handled)].type = "result"
  /\ handled[Len(handled)].request = req

\* C15: the first call of an invocation is the forward transform of the
\* padded signal; while the scales are processed the signal spectrum is that
\* one transform and no step changes it; after i scales 1 + i forward and i
\* inverse transforms were made, 1 + M and M when the matrix is returned.
C15_State ==
  /\ wpc = "scales" =>
       LET s == fft([re |-> PadSignal(req.signal, paddedLength),
                     im |-> Zeros(paddedLength)])
       IN /\ calls[1].fn = "fft"
          /\ signalRe = s.re
          /\ signalIm = s.im
          /\ CallsOf("fft") = 1 + i
          /\ CallsOf("ifft") = i
          /\ Len(calls) = 1 + 2 * i
  /\ Returned =>
       /\ CallsOf("fft") = 1 + Len(req.scales)
       /\ CallsOf("ifft") = Len(req.scales)
       /\ Len(calls) = 1 + 2 * Len(req.scales)

C15_Step ==
  (wpc = "scales" /\ wpc' # "called") =>
    (signalRe' = signalRe /\ signalIm' = signalIm)

C15_OneSignalTransform == []C15_State /\ [][C15_Step]_vars

\* a matrix of two rows for a signal that is not zero has been returned
\* after the five transforms of its invocation
C15_Witness ==
  /\ Returned
  /\ Len(req.scales) = 2
  /\ N = 2
  /\ Len(calls) = 5
  /\ \E j \in 1..Len(signalIm) : IsFin(signalIm[j]) /\ ~IsZero(signalIm[j])

\* C16: from the call of cwt to its return or failure no step changes the
\* caller's signal or scale list, and the request recorded with the answer
\* is the request as it was received.
C16_Step ==
  /\ wpc # "idle" => (req'.signal = req.signal /\ req'.scales = req.scales)
  /\ Len(handled') > Len(handled) => handled'[Len(handled')].request = req

C16_InputsUnchanged == [][C16_Step]_vars

\* a matrix has been returned for a signal whose transformed copy differs
\* from it, and the signal still holds its samples
C16_Witness ==
  /\ Returned
  /\ req.signal = <<Fin(0), Fin(Unit)>>
  /\ Len(req.scales) = 2
  /\ SubSeq(signalRe, 1, N) # req.signal
  /\ handled[Len(handled)].request.signal = <<Fin(0), Fin(Unit)>>

\* bit b of x
Bit(x, b) == (x \div Pow2(b)) % 2

\* C17: for a power-of-two length n and 0 <= index < n the value returned
\* is in 0..n-1, its bit b is bit log2(n) - 1 - b of index for every b below
\* log2(n), and no other index below n gives the same value.
C17_BitReversal ==
  revCalls = 1 =>
    LET bits == CeilLog2(revN)
        passes == LoopBits(revN)
    IN /\ reversed \in 0..(revN - 1)
       /\ \A b \in 0..(bits - 1) : Bit(reversed, b) = Bit(revIndex, bits - 1 - b)
       /\ \A other \in 0..(revN - 1) :
            \* reverseIndex(other, revN), its number of passes computed once
            other # revIndex => ReverseLoop(other, 0, passes) # reversed

\* index 1 of length 1024 was reversed to 512
C17_Witness ==
  /\ revCalls = 1
  /\ revN = 1024
  /\ revIndex = 1
  /\ reversed = 512

\* C18: for a power-of-two length n and 0 <= index < n, reversing the
\* reversed index gives index again.
C18_Involution == revCalls = 2 => reversed = revIndex

\* index 3 of length 16 was reversed twice
C18_Witness ==
  /\ revCalls = 2
  /\ revN = 16
  /\ revIndex = 3
  /\ reversed = 3
  /\ reverseIndex(3, 16) = 12

\* C19: for buffers x, y of the same power-of-two length and integer
\* scalars a, b, the transform of a*x + b*y equals a times the transform of x
\* plus b times the transform of y at every index, real and imaginary part,
\* and is a number there.
C19_Linear ==
  (linCalls = 3 /\ IsPowerOfTwo(Len(linX.re))) =>
    /\ linZ = Combination(linA, linX, linB, linY)
    /\ \A j \in 1..Len(linZ.re) : IsFin(linZ.re[j]) /\ IsFin(linZ.im[j])

\* buffers of length 4 with real and imaginary parts that are not zero were
\* transformed, with scalars that do not add up to 1
C19_Witness ==
  /\ linCalls = 3
  /\ Len(linX.re) = 4
  /\ linA + linB # 1
  /\ \E j \in 1..4 : ~IsZero(linX.im[j])
  /\ \E j \in 1..4 : ~IsZero(linY.im[j])
  /\ \E j \in 1..4 : ~IsZero(linZ.re[j])
  /\ \E j \in 1..4 : ~IsZero(linZ.im[j])
  /\ linX # linY

AllZero(a) == \A j \in 1..Len(a) : IsZero(a[j])

\* C20: a request whose signal has N >= 1 samples, all zero, and whose
\* scales are all strictly positive is answered with a matrix whose entries
\* are all exactly zero (stated for an invocation that no failed allocation
\* has ended).
C20_ZeroSignal ==
  \A k \in 1..Len(handled) :
    (/\ Len(handled[k].request.signal) >= 1
     /\ AllZero(handled[k].request.signal)
     /\ AllPositive(handled[k].request.scales)
     /\ ~AllocationFailed(handled[k]))
      => /\ handled[k].type = "result"
         /\ Len(handled[k].data) =
              Len(handled[k].request.scales) * Len(handled[k].request.signal)
         /\ AllZero(handled[k].data)

\* the buffers b with every element of re and im divided by len
DividedBy(b, len) ==
  [re |-> [j \in 1..Len(b.re) |-> Div(b.re[j], Fin(len * Unit))],
   im |-> [j \in 1..Len(b.im) |-> Div(b.im[j], Fin(len * Unit))]]

\* C21: ifft changes its buffers in three steps, in this order: the forward
\* transform of fft on the buffers as given (im not negated first), then
\* every element of re and im divided by n, then every element of im
\* negated; the outcome is that of ifft.
C21_Step ==
  /\ fb' # fb =>
       \/ fpc = "input" /\ fpc' = "ifft: fft"
       \/ fpc = "ifft: fft" /\ fpc' = "ifft: divide"
       \/ fpc = "ifft: divide" /\ fpc' = "ifft: negate"
  /\ fpc' # fpc =>
       /\ fpc = "input" <=> fpc' = "ifft: fft"
       /\ fpc = "ifft: fft" <=> fpc' = "ifft: divide"
       /\ fpc = "ifft: divide" <=> fpc' = "ifft: negate"
       /\ fpc' = "ifft: fft" => (fb = fx /\ fb' = fft(fx))
       /\ fpc' = "ifft: divide" =>
            /\ fb'.re = DividedBy(fb, Len(fb.re)).re
            /\ fb'.im = DividedBy(fb, Len(fb.re)).im
       /\ fpc' = "ifft: negate" =>
            /\ fb'.re = fb.re
            /\ Len(fb'.im) = Len(fb.im)
            /\ \A j \in 1..Len(fb.im) : fb'.im[j] = Neg(fb.im[j])
            /\ fb' = ifft(fx)

C21_StepOrder == [][C21_Step]_vars

\* the three steps were made on buffers of length 4 with imaginary parts
\* that are not zero, and each step changed the buffers
C21_Witness ==
  /\ fpc = "ifft: negate"
  /\ Len(fx.re) = 4
  /\ \E j \in 1..4 : ~IsZero(fx.im[j])
  /\ fb # fft(fx)
  /\ fb # DivideByN(fft(fx))
  /\ fb # fx
  /\ \A j \in 1..4 : IsFin(fb.re[j]) /\ IsFin(fb.im[j])

\* the swaps of permSwaps that involve index k
SwapsOf(k) ==
  Cardinality({c \in 1..Len(permSwaps) : permSwaps[c][1] = k \/ permSwaps[c][2] = k})

\* C22: after the permutation loop on buffers of power-of-two length n the
\* element that was at index k is at index reverseIndex(k, n), in re and in
\* im; an index that differs from its reversal was in exactly one swap, with
\* its reversal, and an index equal to its reversal was in none.
C22_Permutation ==
  (permI = Len(fb.re) /\ IsPowerOfTwo(Len(fb.re))) =>
    LET len == Len(fb.re)
    IN /\ Len(fb.im) = len
       /\ \A k \in 0..(len - 1) :
            LET r == reverseIndex(k, len)
            IN /\ fb.re[r + 1] = fx.re[k + 1]
               /\ fb.im[r + 1] = fx.im[k + 1]
               /\ SwapsOf(k) = (IF r = k THEN 0 ELSE 1)
               /\ r # k =>
                    \E c \in 1..Len(permSwaps) : {permSwaps[c][1], permSwaps[c][2]} = {k, r}
       /\ fb = Permute(fx)

\* the loop has ended on buffers of length 16: index 1 and index 8 were
\* swapped, index 6 stayed
C22_Witness ==
  /\ permI = 16
  /\ Len(fb.re) = 16
  /\ fb.re[9] = fx.re[2]
  /\ fb.im[9] = fx.im[2]
  /\ fb.im[9] # fb.im[2]
  /\ fb.re[7] = fx.re[7]
  /\ Len(permSwaps) = 6

\* row r (0-based) of the matrix returned for handled[k]
RowOf(k, r) ==
  LET len == Len(handled[k].request.signal)
  IN SubSeq(handled[k].data, r * len + 1, (r + 1) * len)

\* C23: for two requests with the same signal and wavelet, a row of the one
\* matrix equals every row of the other matrix that belongs to the same scale
\* value, wherever that value stands in the two scale lists and whatever the
\* other scales are; so a permuted scale list gives the rows permuted alike.
C23_RowsIndependent ==
  \A j \in 1..Len(handled) : \A k \in 1..Len(handled) :
    (/\ handled[j].type = "result"
     /\ handled[k].type = "result"
     /\ handled[j].request.signal = handled[k].request.signal
     /\ handled[j].request.waveletType = handled[k].request.waveletType)
      => \A rj \in 1..Len(handled[j].request.scales) :
           \A rk \in 1..Len(handled[k].request.scales) :
             handled[j].request.scales[rj] = handled[k].request.scales[rk]
               => RowOf(j, rj - 1) = RowOf(k, rk - 1)

\* matrices were returned for the scales 2, 1 and for the scales 1, 2: their
\* rows are exchanged, and the two rows differ
C23_Witness ==
  /\ Len(handled) = 2
  /\ handled[1].type = "result"
  /\ handled[2].type = "result"
  /\ Len(handled[1].request.signal) = 2
  /\ handled[1].request.scales = <<Fin(2 * Unit), Fin(Unit)>>
  /\ handled[2].request.scales = <<Fin(Unit), Fin(2 * Unit)>>
  /\ RowOf(1, 0) = RowOf(2, 1)
  /\ RowOf(1, 1) = RowOf(2, 0)
  /\ RowOf(1, 0) # RowOf(1, 1)
  /\ \A c \in 1..4 : IsFin(handled[1].data[c])

\* C24: on the buffers of cwt (N >= 1) fft makes exactly log2(paddedLength)
\* passes, its butterflies read and write only indices j and j + halfsize in
\* 0..paddedLength-1, and these butterflies give the signal spectrum; the
\* loop over the scales never goes beyond M; and an invocation that has
\* started ends (by its return, or by a failed allocation).
C24_State ==
  /\ (wpc = "scales" /\ N >= 1) =>
       LET passes == PassesOrderFrom(paddedLength, 2)
           b == [re |-> PadSignal(req.signal, paddedLength),
                 im |-> Zeros(paddedLength)]
       IN /\ Pow2(Len(passes)) = paddedLength
          /\ \A p \in 1..Len(passes) :
               /\ Len(passes[p]) = paddedLength \div 2
               /\ \A c \in 1..Len(passes[p]) :
                    /\ passes[p][c].j >= 0
                    /\ passes[p][c].j + passes[p][c].halfsize <= paddedLength - 1
          /\ PassesIn(Permute(b), passes, 1) = [re |-> signalRe, im |-> signalIm]
  /\ wpc = "scales" =>
       /\ i <= Len(req.scales)
       /\ Len(calls) <= 1 + 2 * Len(req.scales)

C24_Terminates == []C24_State /\ ((wpc # "idle") ~> (wpc = "idle"))

\* an invocation with 3 samples and 2 scales has returned: three passes on
\* buffers of 8 elements, five transforms
C24_Witness ==
  /\ Returned
  /\ N = 3
  /\ paddedLength = 8
  /\ Len(PassesOrderFrom(paddedLength, 2)) = 3
  /\ Len(req.scales) = 2
  /\ Len(calls) = 5

\* a message that answers a request
IsAnswer(m) == m.type \in {"result", "error"}

\* the requests posted to the living worker and not yet answered to the
\* component: those waiting, the one being handled, and those whose answer
\* is on its way
Unanswered ==
  Len(inbox)
    + (IF wpc \in {"called", "scales"} THEN 1 ELSE 0)
    + Cardinality({k \in 1..Len(outbox) : IsAnswer(outbox[k])})

\* C25: while the component is mounted, isCalculating is true in every state
\* in which a request posted to the worker has not been answered by a
\* 'result' or 'error' message, also when a second request is posted before
\* the first is answered.
C25_Calculating == (phase = "mounted" /\ Unanswered > 0) => isCalculating

\* C26: the worker answers the requests in the order the component posted
\* them, one at a time; the component stores each result when it arrives;
\* and once every posted request has been answered without error, cwtResult
\* is the result of the request posted last.
C26_State ==
  /\ Len(handled) <= Len(sent)
  /\ \A k \in 1..Len(handled) : handled[k].request = sent[k]
  /\ received <= Len(handled) + 1
  /\ wpc \in {"called", "scales"} =>
       /\ received = Len(handled) + 1
       /\ req = sent[received]
  /\ ( /\ phase = "mounted"
       /\ sent # <<>>
       /\ Unanswered = 0
       /\ Len(handled) = Len(sent)
       /\ \A k \in 1..Len(handled) : handled[k].type = "result" )
     => /\ handled[Len(handled)].request = sent[Len(sent)]
        /\ cwtResult = FormatResult(handled[Len(handled)].data)

C26_Step ==
  ( /\ outbox # <<>>
    /\ Head(outbox).type = "result"
    /\ outbox' = Tail(outbox)
    /\ phase' = phase )
  => cwtResult' = FormatResult(Head(outbox).data)

C26_LatestResult == []C26_State /\ [][C26_Step]_vars

\* two requests with different results have been answered, and the result
\* shown is that of the second
C26_Witness ==
  /\ phase = "mounted"
  /\ Len(sent) = 2
  /\ Len(handled) = 2
  /\ Unanswered = 0
  /\ handled[1].type = "result"
  /\ handled[2].type = "result"
  /\ handled[1].data # handled[2].data
  /\ cwtResult = FormatResult(handled[2].data)
  /\ cwtResult # FormatResult(handled[1].data)

\* C27: at most one worker is alive, the one workerRef holds; a worker is
\* created only when workerRef is null; the cleanup terminates the worker
\* and sets workerRef to null; while workerRef is null no message changes
\* cwtResult or isCalculating and no request is posted; and when a worker is
\* created no message of an earlier worker is on its way.
C27_State ==
  /\ Cardinality(alive) <= 1
  /\ alive = (IF workerRef = 0 THEN {} ELSE {workerRef})
  /\ workerRef = 0 => (inbox = <<>> /\ outbox = <<>> /\ wpc = "none")

C27_Step ==
  /\ created' # created =>
       /\ workerRef = 0
       /\ workerRef' = created'
       /\ outbox' = DebugMsgs(2)
  /\ (phase = "mounted" /\ phase' \in {"remounting", "unmounted"}) =>
       /\ workerRef' = 0
       /\ alive' = {}
  /\ workerRef = 0 => (cwtResult' = cwtResult /\ isCalculating' = isCalculating)
  /\ posted' # posted => (workerRef # 0 /\ workerRef' = workerRef)

C27_OneWorker == []C27_State /\ [][C27_Step]_vars

\* the second worker of the component was terminated while it was handling
\* a request
C27_Witness ==
  /\ phase = "unmounted"
  /\ created = 2
  /\ alive = {}
  /\ workerRef = 0
  /\ received > Len(handled)
  /\ isCalculating

\* C28: every request the component posts has a signal of signalLength
\* samples and the numScales scales 10 - 0.1 * i, all strictly positive and
\* strictly decreasing; no request is posted while the signal or the scale
\* list is empty; and the rows the result handler cuts out of a result are
\* exactly the numScales * signalLength entries the worker produced.
C28_State ==
  /\ \A k \in 1..Len(sent) :
       /\ Len(sent[k].signal) = signalLength
       /\ \A j \in 1..signalLength : IsFin(sent[k].signal[j])
       /\ Len(sent[k].scales) = numScales
       /\ \A j \in 1..numScales :
            /\ sent[k].scales[j] = Sub(Fin(10 * Unit), Mul(Fin((j - 1) * Unit), Tenth))
            /\ IsFin(sent[k].scales[j])
            /\ sent[k].scales[j].v > 0
            /\ j > 1 => sent[k].scales[j].v < sent[k].scales[j - 1].v
  /\ \A k \in 1..Len(handled) :
       handled[k].type = "result" =>
         /\ Len(handled[k].data) = numScales * signalLength
         /\ \A r \in 1..numScales :
              FormatResult(handled[k].data)[r]
                = SubSeq(handled[k].data, (r - 1) * signalLength + 1, r * signalLength)

C28_Step ==
  posted' # posted => (Len(state'.signal) > 0 /\ Len(state'.scales) > 0)

===========================================================================
